---- MODULE Spec2Model ----
(***************************************************************************)
(* A model of daskinsitu (src/daskinsitu/daskinsitu.py): lazy dask arrays  *)
(* over h5 datasets, the process-wide dict _OPEN_FILES_ of open h5py files *)
(* that the delayed reads fill, and compute / close_open_files that drain  *)
(* it.  Python threads interleave between the statements of _get_dataset   *)
(* and close_open_files; every statement is one step of the model.         *)
(***************************************************************************)
EXTENDS Naturals, Integers, Sequences, FiniteSets, TLC

VARIABLES
    exists,      \* the file system: which paths name a file
    OPEN_FILES,  \* the dict _OPEN_FILES_
    files,       \* every h5py.File that _get_dataset has opened, in order
    made,        \* the last constructor call and what it returned or raised
    held,        \* the lazy arrays the program holds
    pc,          \* where each thread of the program is
    call,        \* the function each thread is in, or was in last
    ret,         \* what that function returned or raised
    task,        \* the delayed _get_dataset calls of each thread's evaluation
    results,     \* locals of compute and close_open_files
    ntasks       \* the number of delayed calls handed to the engine so far

vars == <<exists, OPEN_FILES, files, made, held, pc, call, ret, task, results, ntasks>>

(***************************************************************************)
(* Bounds of the model.                                                    *)
(***************************************************************************)
\* delayed reads handed to the engine in one run
MaxTasks == 2
\* lazy arrays evaluated together in one compute call
MaxBatch == 2
\* lazy arrays the program keeps references to
MaxHeld == 2

\* threads of the program that call the public functions
Callers == {"t1", "t2"}
\* the file paths the program uses
Paths == {"a.h5", "b.h5"}

None == "None"
FileNotFoundError == "FileNotFoundError"
NotGroupError == "NotGroupError"
NotDatasetError == "NotDatasetError"
KeyError == "KeyError"
ValueError == "ValueError"

(***************************************************************************)
(* Python dicts keep insertion order: a sequence of [key, value] items.    *)
(***************************************************************************)
DictKeys(d) == {d[i].key : i \in 1..Len(d)}

DictValues(d) == {d[i].value : i \in 1..Len(d)}

DictHas(d, k) == \E i \in 1..Len(d) : d[i].key = k

DictGet(d, k) == d[CHOOSE i \in 1..Len(d) : d[i].key = k].value

\* a dict that keeps one item only: the assignment forgets the other keys
DictSetSingle(d, k, v) == <<[key |-> k, value |-> v]>>

\* d[k] = v : replaces the value of an existing key in place, else appends
DictSet(d, k, v) ==
    IF DictHas(d, k)
    THEN [i \in 1..Len(d) |-> IF d[i].key = k THEN [key |-> k, value |-> v] ELSE d[i]]
    ELSE Append(d, [key |-> k, value |-> v])

\* d.popitem() : removes and returns the item inserted last
DictLast(d) == d[Len(d)]

DictPopped(d) == SubSeq(d, 1, Len(d) - 1)

(***************************************************************************)
(* The h5 container.  Every file that exists has the same layout:          *)
(*   /g      group      /g/n   group (nested)    /g/n/q  plain dataset     *)
(*   /g/p    plain dataset     /g/s  structured dataset, fields re and im  *)
(* An entry path is the sequence of its segments.                          *)
(***************************************************************************)
PlainDType(t) == [kind |-> "plain", base |-> t, names |-> <<>>, types |-> <<>>]

StructDType(ns, ts) == [kind |-> "struct", base |-> "V", names |-> ns, types |-> ts]

NoDType == [kind |-> None, base |-> None, names |-> <<>>, types |-> <<>>]

GroupNode(ch) == [kind |-> "Group", children |-> ch, shape |-> <<>>, dtype |-> NoDType]

DatasetNode(sh, dt) == [kind |-> "Dataset", children |-> <<>>, shape |-> sh, dtype |-> dt]

MissingNode == [kind |-> "missing", children |-> <<>>, shape |-> <<>>, dtype |-> NoDType]

\* file[entry_path] of h5py; "missing" stands for the KeyError of h5py
Node(ep) ==
    CASE ep = <<>>              -> GroupNode(<<"g">>)
      [] ep = <<"g">>           -> GroupNode(<<"n", "p", "s">>)
      [] ep = <<"g", "n">>      -> GroupNode(<<"q">>)
      [] ep = <<"g", "n", "q">> -> DatasetNode(<<5>>, PlainDType("i4"))
      [] ep = <<"g", "p">>      -> DatasetNode(<<3>>, PlainDType("f8"))
      [] ep = <<"g", "s">>      -> DatasetNode(<<2, 4>>, StructDType(<<"re", "im">>, <<"f8", "f4">>))
      [] OTHER                  -> MissingNode

SeqSet(s) == {s[i] : i \in 1..Len(s)}

\* dtype[name] of numpy: the type of a field, KeyError when there is none
HasField(dt, name) == name \in SeqSet(dt.names)

FieldDType(dt, name) ==
    PlainDType(dt.types[CHOOSE i \in 1..Len(dt.names) : dt.names[i] = name])

(***************************************************************************)
(* Results of calls: a returned value or a raised exception.               *)
(***************************************************************************)
NoRet == [tag |-> "none", exc |-> None, array |-> <<>>, dict |-> <<>>, tuple |-> <<>>]

Raise(e) == [tag |-> "raise", exc |-> e, array |-> <<>>, dict |-> <<>>, tuple |-> <<>>]

ReturnArray(a) == [tag |-> "return", exc |-> None, array |-> <<a>>, dict |-> <<>>, tuple |-> <<>>]

ReturnDict(d) == [tag |-> "return", exc |-> None, array |-> <<>>, dict |-> d, tuple |-> <<>>]

ReturnTuple(t) == [tag |-> "return", exc |-> None, array |-> <<>>, dict |-> <<>>, tuple |-> t]

ReturnNone == [tag |-> "return", exc |-> None, array |-> <<>>, dict |-> <<>>, tuple |-> <<>>]

(***************************************************************************)
(* Keyword arguments shape= and dtype= of from_h5dataset.                  *)
(***************************************************************************)
NoShape == <<0, 0, 0>>

Kwargs(hasShape, sh, hasDType, dt) ==
    [hasShape |-> hasShape, shape |-> sh, hasDType |-> hasDType, dtype |-> dt]

\* {"dtype","shape"} <= set(kwargs)
HasBoth(kw) == kw.hasShape /\ kw.hasDType

\* kwargs.update(ds_info): both keys are set from ds_info
KwargsUpdate(kw, info) == Kwargs(TRUE, info.shape, TRUE, info.dtype)

(***************************************************************************)
(* _get_ds_info: shape and dtype read from a file opened for the call only *)
(***************************************************************************)
InfoOk(sh, dt) == [exc |-> None, shape |-> sh, dtype |-> dt]

InfoRaise(e) == [exc |-> e, shape |-> NoShape, dtype |-> NoDType]

get_ds_info(ex, file_path, dataset_path, field_name) ==
    LET ds == Node(dataset_path) IN
    IF ~ex[file_path] THEN InfoRaise(FileNotFoundError)
    ELSE IF ds.kind = "missing" THEN InfoRaise(KeyError)
    ELSE IF ds.kind # "Dataset" THEN InfoRaise(NotDatasetError)
    ELSE IF field_name = None THEN InfoOk(ds.shape, ds.dtype)
    ELSE IF ~HasField(ds.dtype, field_name) THEN InfoRaise(KeyError)
    ELSE InfoOk(ds.shape, FieldDType(ds.dtype, field_name))

(***************************************************************************)
(* The files that a constructor opens for itself with                      *)
(*     with h5py.File(file_path) as file: ...                              *)
(* counted when the call is over: how many it opened and how many of those *)
(* were closed by then.  The with statement closes its file when the block *)
(* is left, by return or by exception.                                     *)
(***************************************************************************)
Scope(opened, closed) == [opened |-> opened, closed |-> closed]

NoScope == Scope(0, 0)

ScopeSum(a, b) == Scope(a.opened + b.opened, a.closed + b.closed)

\* a _get_ds_info that closes its file before it returns, not when it raises
get_ds_info_close_on_return(ex, file_path, dataset_path, field_name) ==
    IF ~ex[file_path] THEN NoScope
    ELSE IF get_ds_info(ex, file_path, dataset_path, field_name).exc # None THEN Scope(1, 0)
    ELSE Scope(1, 1)

\* _get_ds_info: line 160 raises before any file is opened; the with block of
\* lines 161-165 is left by return or by the exception of lines 162-165
get_ds_info_scope(ex, file_path, dataset_path, field_name) ==
    IF ~ex[file_path] THEN NoScope
    ELSE Scope(1, 1)

\* from_h5dataset opens a file only through _get_ds_info
from_h5dataset_scope(ex, file_path, dataset_path, field_name, kw) ==
    IF HasBoth(kw) THEN NoScope
    ELSE get_ds_info_scope(ex, file_path, dataset_path, field_name)

(***************************************************************************)
(* from_h5dataset: the lazy array is the delayed call of _get_dataset with *)
(* the three arguments, and the shape and dtype given to from_delayed.     *)
(***************************************************************************)
LazyArray(file_path, dataset_path, field_name, kw) ==
    [file_path |-> file_path, dataset_path |-> dataset_path, field_name |-> field_name,
     shape |-> kw.shape, dtype |-> kw.dtype]

\* from_h5dataset that reads the metadata whatever the caller has supplied
from_h5dataset_resolving(ex, file_path, dataset_path, field_name, kw) ==
    LET ds_info == get_ds_info(ex, file_path, dataset_path, field_name) IN
    IF ds_info.exc # None THEN Raise(ds_info.exc)
    ELSE ReturnArray(LazyArray(file_path, dataset_path, field_name, KwargsUpdate(kw, ds_info)))

from_h5dataset(ex, file_path, dataset_path, field_name, kw) ==
    IF HasBoth(kw)
    THEN ReturnArray(LazyArray(file_path, dataset_path, field_name, kw))
    ELSE LET ds_info == get_ds_info(ex, file_path, dataset_path, field_name) IN
         IF ds_info.exc # None THEN Raise(ds_info.exc)
         ELSE ReturnArray(LazyArray(file_path, dataset_path, field_name,
                                    KwargsUpdate(kw, ds_info)))

(***************************************************************************)
(* from_h5group: one lazy array per plain dataset of the group and one per *)
(* field of each structured dataset.                                       *)
(***************************************************************************)
\* [(name, ds.dtype[name]) for name in ds.dtype.names] if ds.dtype.names
\*                                                     else [(ds_name, ds.dtype)]
keys_dtypes_own_name(ds_name, ds) == <<[key |-> ds_name, dtype |-> ds.dtype]>>

keys_dtypes(ds_name, ds) ==
    IF ds.dtype.names # <<>>
    THEN [i \in 1..Len(ds.dtype.names) |->
             [key |-> ds.dtype.names[i], dtype |-> FieldDType(ds.dtype, ds.dtype.names[i])]]
    ELSE <<[key |-> ds_name, dtype |-> ds.dtype]>>

\* for key, dtype in keys_dtypes: output[key] = from_h5dataset(...)
RECURSIVE AddKeys(_, _, _, _, _, _)
AddKeys(output, ex, file_path, ds_path, ds, kds) ==
    IF kds = <<>> THEN output
    ELSE LET item == from_h5dataset(ex, file_path, ds_path, None,
                                    Kwargs(TRUE, ds.shape, TRUE, Head(kds).dtype))
         IN AddKeys(DictSet(output, Head(kds).key, item.array[1]),
                    ex, file_path, ds_path, ds, Tail(kds))

\* for ds_name, ds in group.items()
RECURSIVE GroupLoop(_, _, _, _, _)
GroupLoop(output, ex, file_path, group_path, names) ==
    IF names = <<>> THEN output
    ELSE LET ds_name == Head(names)
             ds_path == Append(group_path, ds_name)
             ds      == Node(ds_path)
         IN IF ds.kind # "Dataset"
            THEN GroupLoop(output, ex, file_path, group_path, Tail(names))
            ELSE GroupLoop(AddKeys(output, ex, file_path, ds_path, ds,
                                   keys_dtypes(ds_name, ds)),
                           ex, file_path, group_path, Tail(names))

from_h5group(ex, file_path, group_path) ==
    LET group == Node(group_path) IN
    IF ~ex[file_path] THEN Raise(FileNotFoundError)
    ELSE IF group.kind = "missing" THEN Raise(KeyError)
    ELSE IF group.kind # "Group" THEN Raise(NotGroupError)
    ELSE ReturnDict(GroupLoop(<<>>, ex, file_path, group_path, group.children))

\* the files of the from_h5dataset calls of the loop over one group
RECURSIVE GroupLoopScope(_, _, _, _)
GroupLoopScope(ex, file_path, group_path, names) ==
    IF names = <<>> THEN NoScope
    ELSE LET ds_path == Append(group_path, Head(names))
             ds      == Node(ds_path)
             rest    == GroupLoopScope(ex, file_path, group_path, Tail(names))
         IN IF ds.kind # "Dataset" THEN rest
            ELSE ScopeSum(from_h5dataset_scope(ex, file_path, ds_path, None,
                                               Kwargs(TRUE, ds.shape, TRUE, ds.dtype)),
                          rest)

\* from_h5group: line 100 raises before the file is opened; the with block of
\* lines 101-115 is left by return or by an exception of line 102 or 103
from_h5group_scope(ex, file_path, group_path) ==
    LET group == Node(group_path) IN
    IF ~ex[file_path] THEN NoScope
    ELSE IF group.kind # "Group" THEN Scope(1, 1)
    ELSE ScopeSum(Scope(1, 1), GroupLoopScope(ex, file_path, group_path, group.children))

(***************************************************************************)
(* Values that an evaluation produces.  A task of the engine returns the   *)
(* h5py object that _get_dataset returns (a Dataset, or a FieldsWrapper    *)
(* when a field name was given), which reads through its file; indexing it *)
(* reads the data into a plain array.                                      *)
(***************************************************************************)
Value(kind, file, entry, field, dtype) ==
    [kind |-> kind, file |-> file, entry |-> entry, field |-> field, dtype |-> dtype]

NoValue == Value(None, 0, <<>>, None, NoDType)

\* x[...] on a Dataset or a FieldsWrapper: the data as a plain array
Read(x) == Value("ndarray", 0, x.entry, x.field, x.dtype)

NoKwargs == Kwargs(FALSE, NoShape, FALSE, NoDType)

NewTask(arr) ==
    [arr |-> arr, pc |-> "exists", file |-> 0, val |-> NoValue, exc |-> None]

\* made.existed: whether the file existed when the constructor was called;
\* made.scope: the files the constructor opened for itself
NoMade == [name |-> None, file_path |-> None, path |-> <<>>, field_name |-> None,
           kwargs |-> NoKwargs, existed |-> FALSE, ret |-> NoRet, scope |-> NoScope]

NoResults == [raw |-> <<>>, out |-> <<>>, file |-> 0]

Init ==
    /\ exists \in [Paths -> BOOLEAN]
    /\ OPEN_FILES = <<>>
    /\ files = <<>>
    /\ made = NoMade
    /\ held = {}
    /\ pc = [c \in Callers |-> "idle"]
    /\ call = [c \in Callers |-> None]
    /\ ret = [c \in Callers |-> NoRet]
    /\ task = [c \in Callers |-> <<>>]
    /\ results = [c \in Callers |-> NoResults]
    /\ ntasks = 0

(***************************************************************************)
(* The file system changes under the program.                              *)
(***************************************************************************)
FileRemoved(p) ==
    /\ exists[p]
    /\ exists' = [exists EXCEPT ![p] = FALSE]
    /\ UNCHANGED <<OPEN_FILES, files, made, held, pc, call, ret, task, results, ntasks>>

FileCreated(p) ==
    /\ ~exists[p]
    /\ exists' = [exists EXCEPT ![p] = TRUE]
    /\ UNCHANGED <<OPEN_FILES, files, made, held, pc, call, ret, task, results, ntasks>>

(***************************************************************************)
(* Constructors.  They run to completion in one step; the program builds  *)
(* the arrays it evaluates before it evaluates any, and keeps the arrays   *)
(* returned (keep) while it has room for them; a constructor called later, *)
(* between two calls of the other functions, returns an array the program  *)
(* does not evaluate.  made records the call until the program goes on to  *)
(* an evaluation or to close_open_files.                                   *)
(***************************************************************************)
AllIdle == ntasks = 0 /\ \A c \in Callers : pc[c] = "idle"

CanBuild(keep) == IF keep THEN AllIdle ELSE \A c \in Callers : pc[c] = "idle"

Kept(arrs, keep) ==
    IF keep THEN {k \in SUBSET arrs :
                    /\ Cardinality(held \cup k) <= MaxHeld
                    /\ \A a \in arrs \ k : Cardinality(held \cup k \cup {a}) > MaxHeld}
    ELSE {{}}

CallFromDataset(file_path, dataset_path, field_name, kw, keep) ==
    LET r == from_h5dataset(exists, file_path, dataset_path, field_name, kw) IN
    /\ CanBuild(keep)
    /\ made' = [name |-> "from_h5dataset", file_path |-> file_path, path |-> dataset_path,
                field_name |-> field_name, kwargs |-> kw, existed |-> exists[file_path],
                ret |-> r,
                scope |-> from_h5dataset_scope(exists, file_path, dataset_path, field_name, kw)]
    /\ \E k \in Kept(SeqSet(r.array), keep) : held' = held \cup k
    /\ UNCHANGED <<exists, OPEN_FILES, files, pc, call, ret, task, results, ntasks>>

CallFromGroup(file_path, group_path, keep) ==
    LET r == from_h5group(exists, file_path, group_path) IN
    /\ CanBuild(keep)
    /\ made' = [name |-> "from_h5group", file_path |-> file_path, path |-> group_path,
                field_name |-> None, kwargs |-> NoKwargs, existed |-> exists[file_path],
                ret |-> r, scope |-> from_h5group_scope(exists, file_path, group_path)]
    /\ \E k \in Kept(DictValues(r.dict), keep) : held' = held \cup k
    /\ UNCHANGED <<exists, OPEN_FILES, files, pc, call, ret, task, results, ntasks>>

(***************************************************************************)
(* Evaluation.  compute (the module's) and dask.compute (the engine driven *)
(* directly) hand the batch to the engine, which runs one task per lazy    *)
(* array; the tasks of a batch run in parallel threads.                    *)
(***************************************************************************)
Batches ==
    {b \in SUBSET held :
        /\ b # {}
        /\ Cardinality(b) <= MaxBatch
        /\ ntasks + Cardinality(b) <= MaxTasks}

RECURSIVE BatchTasks(_)
BatchTasks(arrs) ==
    IF arrs = {} THEN <<>>
    ELSE LET a == CHOOSE x \in arrs : TRUE
         IN <<NewTask(a)>> \o BatchTasks(arrs \ {a})

\* History kept with each open file h: files[h].by is the thread whose evaluation
\* opened h, while that evaluation is the thread's latest one; files[h].reg tells
\* whether h is "new" (not stored yet), "held" by _OPEN_FILES_, "dropped" (its
\* item was overwritten) or "popped" (taken out by popitem).
Outdated(c) == [h \in 1..Len(files) |-> IF files[h].by = c THEN [files[h] EXCEPT !.by = None]
                                        ELSE files[h]]

CallCompute(c, name, b) ==
    /\ pc[c] = "idle"
    /\ b \in Batches
    /\ ntasks' = ntasks + Cardinality(b)
    /\ call' = [call EXCEPT ![c] = name]
    /\ ret' = [ret EXCEPT ![c] = NoRet]
    /\ task' = [task EXCEPT ![c] = BatchTasks(b)]
    /\ results' = [results EXCEPT ![c] = NoResults]
    /\ files' = Outdated(c)
    /\ pc' = [pc EXCEPT ![c] = "engine"]
    /\ made' = NoMade
    /\ UNCHANGED <<exists, OPEN_FILES, held>>

Tasks(c) == 1..Len(task[c])

Failed(t, e) == [t EXCEPT !.pc = "failed", !.exc = e]

AnyFailed(c) == \E i \in Tasks(c) : task[c][i].pc = "failed"

\* the engine starts no further task once one has failed
Runnable(c, i, at) ==
    /\ pc[c] = "engine"
    /\ i \in Tasks(c)
    /\ task[c][i].pc = at
    /\ at = "exists" => ~AnyFailed(c)

TaskFrame == UNCHANGED <<exists, made, held, pc, call, ret, results, ntasks>>

\* _get_dataset: _raise_error_if_file_not_found(file_path)
GetDatasetExists(c, i) ==
    LET t == task[c][i] IN
    /\ Runnable(c, i, "exists")
    /\ task' = [task EXCEPT ![c][i] =
                   IF exists[t.arr.file_path] THEN [t EXCEPT !.pc = "in"]
                   ELSE Failed(t, FileNotFoundError)]
    /\ UNCHANGED <<OPEN_FILES, files>>
    /\ TaskFrame

\* _get_dataset: if file_path not in _OPEN_FILES_
GetDatasetIn(c, i) ==
    LET t == task[c][i] IN
    /\ Runnable(c, i, "in")
    /\ task' = [task EXCEPT ![c][i] =
                   IF DictHas(OPEN_FILES, t.arr.file_path) THEN [t EXCEPT !.pc = "get"]
                   ELSE [t EXCEPT !.pc = "open"]]
    /\ UNCHANGED <<OPEN_FILES, files>>
    /\ TaskFrame

\* _get_dataset: h5py.File(file_path), a new open file unless the file is gone by now
GetDatasetOpen(c, i) ==
    LET t == task[c][i] IN
    /\ Runnable(c, i, "open")
    /\ IF exists[t.arr.file_path]
       THEN /\ files' = Append(files, [path |-> t.arr.file_path, open |-> TRUE,
                                       by |-> c, reg |-> "new"])
            /\ task' = [task EXCEPT ![c][i] = [t EXCEPT !.pc = "store", !.file = Len(files) + 1]]
       ELSE /\ files' = files
            /\ task' = [task EXCEPT ![c][i] = Failed(t, FileNotFoundError)]
    /\ UNCHANGED OPEN_FILES
    /\ TaskFrame

\* _get_dataset: _OPEN_FILES_[file_path] = <the file just opened>
GetDatasetStore(c, i) ==
    LET t == task[c][i] IN
    /\ Runnable(c, i, "store")
    /\ OPEN_FILES' = DictSet(OPEN_FILES, t.arr.file_path, t.file)
    /\ task' = [task EXCEPT ![c][i] = [t EXCEPT !.pc = "get", !.file = 0]]
    /\ files' = [h \in 1..Len(files) |->
                    IF h = t.file THEN [files[h] EXCEPT !.reg = "held"]
                    ELSE IF DictHas(OPEN_FILES, t.arr.file_path)
                            /\ h = DictGet(OPEN_FILES, t.arr.file_path)
                         THEN [files[h] EXCEPT !.reg = "dropped"]
                    ELSE files[h]]
    /\ TaskFrame

\* _get_dataset: _OPEN_FILES_[file_path]
GetDatasetGet(c, i) ==
    LET t == task[c][i] IN
    /\ Runnable(c, i, "get")
    /\ task' = [task EXCEPT ![c][i] =
                   IF DictHas(OPEN_FILES, t.arr.file_path)
                   THEN [t EXCEPT !.pc = "read", !.file = DictGet(OPEN_FILES, t.arr.file_path)]
                   ELSE Failed(t, KeyError)]
    /\ UNCHANGED <<OPEN_FILES, files>>
    /\ TaskFrame

\* ds.fields(field_name) if field_name else ds
Projected(file, dataset_path, ds, field_name) ==
    IF field_name # None
    THEN Value("FieldsWrapper", file, dataset_path, field_name, FieldDType(ds.dtype, field_name))
    ELSE Value("Dataset", file, dataset_path, None, ds.dtype)

\* _get_dataset: <file>[dataset_path], _raise_error_if_not_dataset, the return
GetDatasetRead(c, i) ==
    LET t  == task[c][i]
        ds == Node(t.arr.dataset_path)
        x  == Projected(t.file, t.arr.dataset_path, ds, t.arr.field_name)
    IN
    /\ Runnable(c, i, "read")
    /\ task' = [task EXCEPT ![c][i] =
                   IF ~files[t.file].open THEN Failed(t, ValueError)
                   ELSE IF ds.kind = "missing" THEN Failed(t, KeyError)
                   ELSE IF ds.kind # "Dataset" THEN Failed(t, NotDatasetError)
                   ELSE IF t.arr.field_name # None /\ ~HasField(ds.dtype, t.arr.field_name)
                        THEN Failed(t, ValueError)
                   ELSE [t EXCEPT !.pc = "done", !.val = x]]
    /\ UNCHANGED <<OPEN_FILES, files>>
    /\ TaskFrame

Settled(t) == t.pc \in {"exists", "done", "failed"}

\* the engine returns the results of the batch
EngineReturn(c) ==
    LET vals == [i \in Tasks(c) |-> task[c][i].val] IN
    /\ pc[c] = "engine"
    /\ \A i \in Tasks(c) : task[c][i].pc = "done"
    /\ IF call[c] = "compute"
       THEN /\ pc' = [pc EXCEPT ![c] = "index"]
            /\ results' = [results EXCEPT ![c] = [raw |-> vals, out |-> <<>>, file |-> 0]]
            /\ ret' = ret
       ELSE /\ pc' = [pc EXCEPT ![c] = "idle"]
            /\ results' = results
            /\ ret' = [ret EXCEPT ![c] = ReturnTuple(vals)]
    /\ task' = [task EXCEPT ![c] = <<>>]
    /\ UNCHANGED <<exists, OPEN_FILES, files, made, held, call, ntasks>>

\* the engine raises the exception of a failed task; compute has no handler
\* around da.compute, so the exception leaves compute at once
EngineRaise(c) ==
    /\ pc[c] = "engine"
    /\ \A i \in Tasks(c) : Settled(task[c][i])
    /\ \E i \in Tasks(c) :
          /\ task[c][i].pc = "failed"
          /\ ret' = [ret EXCEPT ![c] = Raise(task[c][i].exc)]
    /\ pc' = [pc EXCEPT ![c] = "idle"]
    /\ task' = [task EXCEPT ![c] = <<>>]
    /\ UNCHANGED <<exists, OPEN_FILES, files, made, held, call, results, ntasks>>

\* compute: x[:] if is_wrapper else x, for x in the results; is_wrapper is the
\* lambda itself, which is true, so every result is indexed
is_wrapper_truth(x) == TRUE

\* a compute that goes on to close_open_files after the first result it indexed
ComputeIndexOnce(c) ==
    LET x == Head(results[c].raw) IN
    /\ pc[c] = "index"
    /\ IF x.kind # "ndarray" /\ ~files[x.file].open
       THEN /\ results' = [results EXCEPT ![c] = NoResults]
            /\ pc' = [pc EXCEPT ![c] = "idle"]
            /\ ret' = [ret EXCEPT ![c] = Raise(ValueError)]
       ELSE /\ results' = [results EXCEPT ![c].raw = Tail(@), ![c].out = Append(@, Read(x))]
            /\ pc' = [pc EXCEPT ![c] = "close_test"]
            /\ ret' = ret
    /\ UNCHANGED <<exists, OPEN_FILES, files, made, held, call, task, ntasks>>

ComputeIndex(c) ==
    LET x == Head(results[c].raw) IN
    /\ pc[c] = "index"
    /\ IF ~is_wrapper_truth(x)
       THEN /\ results' = [results EXCEPT ![c].raw = Tail(@), ![c].out = Append(@, x)]
            /\ pc' = [pc EXCEPT ![c] = IF Tail(results[c].raw) = <<>> THEN "close_test" ELSE "index"]
            /\ ret' = ret
       ELSE IF x.kind # "ndarray" /\ ~files[x.file].open
       THEN /\ results' = [results EXCEPT ![c] = NoResults]
            /\ pc' = [pc EXCEPT ![c] = "idle"]
            /\ ret' = [ret EXCEPT ![c] = Raise(ValueError)]
       ELSE /\ results' = [results EXCEPT ![c].raw = Tail(@), ![c].out = Append(@, Read(x))]
            /\ pc' = [pc EXCEPT ![c] = IF Tail(results[c].raw) = <<>> THEN "close_test" ELSE "index"]
            /\ ret' = ret
    /\ UNCHANGED <<exists, OPEN_FILES, files, made, held, call, task, ntasks>>

(***************************************************************************)
(* close_open_files, called by the program or as the last step of compute. *)
(***************************************************************************)
CallClose(c) ==
    /\ pc[c] = "idle"
    /\ call' = [call EXCEPT ![c] = "close_open_files"]
    /\ ret' = [ret EXCEPT ![c] = NoRet]
    /\ results' = [results EXCEPT ![c] = NoResults]
    /\ pc' = [pc EXCEPT ![c] = "close_test"]
    /\ made' = NoMade
    /\ UNCHANGED <<exists, OPEN_FILES, files, held, task, ntasks>>

\* while _OPEN_FILES_: ... ; when the dict is empty the function returns
CloseTest(c) ==
    /\ pc[c] = "close_test"
    /\ IF OPEN_FILES # <<>>
       THEN /\ pc' = [pc EXCEPT ![c] = "close_pop"]
            /\ ret' = ret
       ELSE /\ pc' = [pc EXCEPT ![c] = "idle"]
            /\ ret' = [ret EXCEPT ![c] = IF call[c] = "compute"
                                         THEN ReturnTuple(results[c].out) ELSE ReturnNone]
    /\ results' = [results EXCEPT ![c] = IF OPEN_FILES # <<>> THEN @ ELSE NoResults]
    /\ UNCHANGED <<exists, OPEN_FILES, files, made, held, call, task, ntasks>>

\* a close_open_files that takes the last item and leaves it in the dict until
\* the file is closed
ClosePeek(c) ==
    /\ pc[c] = "close_pop"
    /\ IF OPEN_FILES # <<>>
       THEN /\ results' = [results EXCEPT ![c].file = DictLast(OPEN_FILES).value]
            /\ pc' = [pc EXCEPT ![c] = "close_close"]
            /\ ret' = ret
       ELSE /\ results' = [results EXCEPT ![c] = NoResults]
            /\ pc' = [pc EXCEPT ![c] = "idle"]
            /\ ret' = [ret EXCEPT ![c] = Raise(KeyError)]
    /\ UNCHANGED <<exists, OPEN_FILES, files, made, held, call, task, ntasks>>

\* _, file = _OPEN_FILES_.popitem(); KeyError when another thread emptied the dict
ClosePop(c) ==
    /\ pc[c] = "close_pop"
    /\ IF OPEN_FILES # <<>>
       THEN /\ OPEN_FILES' = DictPopped(OPEN_FILES)
            /\ results' = [results EXCEPT ![c].file = DictLast(OPEN_FILES).value]
            /\ files' = [files EXCEPT ![DictLast(OPEN_FILES).value].reg = "popped"]
            /\ pc' = [pc EXCEPT ![c] = "close_close"]
            /\ ret' = ret
       ELSE /\ OPEN_FILES' = OPEN_FILES
            /\ files' = files
            /\ results' = [results EXCEPT ![c] = NoResults]
            /\ pc' = [pc EXCEPT ![c] = "idle"]
            /\ ret' = [ret EXCEPT ![c] = Raise(KeyError)]
    /\ UNCHANGED <<exists, made, held, call, task, ntasks>>

\* a close_open_files that drops the popped file without closing it
CloseCloseLeak(c) ==
    /\ pc[c] = "close_close"
    /\ results' = [results EXCEPT ![c].file = 0]
    /\ pc' = [pc EXCEPT ![c] = "close_test"]
    /\ UNCHANGED <<exists, OPEN_FILES, files, made, held, call, ret, task, ntasks>>

\* file.close()
CloseClose(c) ==
    /\ pc[c] = "close_close"
    /\ files' = [files EXCEPT ![results[c].file].open = FALSE]
    /\ results' = [results EXCEPT ![c].file = 0]
    /\ pc' = [pc EXCEPT ![c] = "close_test"]
    /\ UNCHANGED <<exists, OPEN_FILES, made, held, call, ret, task, ntasks>>

(***************************************************************************)
(* The program: the constructor calls it makes, and its threads.           *)
(***************************************************************************)
GivenKwargs == Kwargs(TRUE, <<7>>, TRUE, PlainDType("i8"))

DatasetCall(e, f, kw) == [dataset_path |-> e, field_name |-> f, kwargs |-> kw]

DatasetCalls ==
    {DatasetCall(<<"g", "s">>, None, NoKwargs),
     DatasetCall(<<"g", "s">>, "re", NoKwargs),
     DatasetCall(<<"g">>, None, GivenKwargs)}

GroupCalls == {<<"g">>, <<"g", "s">>}

\* a from_h5dataset call made between evaluations: its entry is not a dataset
LateCalls == {DatasetCall(<<"g">>, None, NoKwargs)}

RunBy(threads) ==
    \/ \E c \in threads, n \in {"compute", "dask.compute"}, b \in Batches : CallCompute(c, n, b)
    \/ \E c \in threads : CallClose(c)
    \/ \E c \in threads, i \in 1..MaxBatch : GetDatasetExists(c, i)
    \/ \E c \in threads, i \in 1..MaxBatch : GetDatasetIn(c, i)
    \/ \E c \in threads, i \in 1..MaxBatch : GetDatasetOpen(c, i)
    \/ \E c \in threads, i \in 1..MaxBatch : GetDatasetStore(c, i)
    \/ \E c \in threads, i \in 1..MaxBatch : GetDatasetGet(c, i)
    \/ \E c \in threads, i \in 1..MaxBatch : GetDatasetRead(c, i)
    \/ \E c \in threads : EngineReturn(c)
    \/ \E c \in threads : EngineRaise(c)
    \/ \E c \in threads : ComputeIndex(c)
    \/ \E c \in threads : CloseTest(c)
    \/ \E c \in threads : ClosePop(c)
    \/ \E c \in threads : CloseClose(c)

Run == RunBy(Callers)

Next ==
    \/ \E p \in Paths : FileRemoved(p)
    \/ \E p \in Paths : FileCreated(p)
    \/ \E p \in Paths, d \in DatasetCalls :
          CallFromDataset(p, d.dataset_path, d.field_name, d.kwargs, TRUE)
    \/ Run

Spec == Init /\ [][Next]_vars

(***************************************************************************)
(* A program of one thread that also calls the constructors between its    *)
(* evaluations, while files may be open.                                   *)
(***************************************************************************)
NextSolo ==
    \/ \E p \in Paths : FileRemoved(p)
    \/ \E p \in Paths : FileCreated(p)
    \/ \E p \in Paths, d \in DatasetCalls :
          CallFromDataset(p, d.dataset_path, d.field_name, d.kwargs, TRUE)
    \/ \E p \in Paths, d \in LateCalls :
          CallFromDataset(p, d.dataset_path, d.field_name, d.kwargs, FALSE)
    \/ \E p \in Paths, g \in GroupCalls : CallFromGroup(p, g, FALSE)
    \/ RunBy({"t1"})

SpecSolo == Init /\ [][NextSolo]_vars

(***************************************************************************)
(* The constructors alone, over every argument of interest.                *)
(***************************************************************************)
BuildEntryPaths == {<<>>, <<"g">>, <<"g", "n">>, <<"g", "n", "q">>, <<"g", "p">>, <<"g", "s">>,
                    <<"x">>, <<"g", "x">>}

BuildFieldNames == {None, "re", "im", "zz"}

BuildKwargs ==
    {Kwargs(hs, IF hs THEN <<7>> ELSE NoShape, hd, IF hd THEN PlainDType("i8") ELSE NoDType) :
        hs \in BOOLEAN, hd \in BOOLEAN}

NextBuild ==
    \/ \E p \in Paths : FileRemoved(p)
    \/ \E p \in Paths : FileCreated(p)
    \/ \E p \in Paths, e \in BuildEntryPaths, f \in BuildFieldNames, kw \in BuildKwargs :
          CallFromDataset(p, e, f, kw, FALSE)
    \/ \E p \in Paths, g \in BuildEntryPaths : CallFromGroup(p, g, FALSE)

SpecBuild == Init /\ [][NextBuild]_vars

(***************************************************************************)
(* Vocabulary of the properties.                                           *)
(***************************************************************************)
Handles == 1..Len(files)

InRegistry(h) == h \in DictValues(OPEN_FILES)

\* h is in the hands of a close_open_files that has popped it and closes it next
BeingClosed(h) == \E c \in Callers : pc[c] = "close_close" /\ results[c].file = h

Returned(c, name) == pc[c] = "idle" /\ call[c] = name /\ ret[c].tag # "none"

Evaluating(c) == pc[c] = "engine"

(***************************************************************************)
(* C1: after compute has returned, with results or with the exception of a *)
(* failed delayed read, no file that its evaluation opened is still open   *)
(* or still in _OPEN_FILES_.                                               *)
(***************************************************************************)
C1_NoHandleLeftAfterCompute ==
    \A c \in Callers :
        Returned(c, "compute") =>
            \A h \in Handles : files[h].by = c => ~files[h].open /\ ~InRegistry(h)

(***************************************************************************)
(* C2: the delayed reads running in parallel never have two open files for *)
(* the same path: a path is opened once and every read gets that file.     *)
(* (A file that close_open_files has popped and is about to close is not   *)
(* counted.)                                                               *)
(***************************************************************************)
C2_OneHandlePerPath ==
    \A h1 \in Handles, h2 \in Handles :
        (/\ h1 # h2
         /\ files[h1].path = files[h2].path
         /\ files[h1].open /\ files[h2].open)
            => files[h1].reg = "popped" \/ files[h2].reg = "popped"

(***************************************************************************)
(* C3: when the engine is driven directly (dask.compute), _OPEN_FILES_     *)
(* holds a file for the path of every result read, it keeps every path     *)
(* until close_open_files pops it, and a close_open_files that returns     *)
(* leaves it empty.                                                        *)
(***************************************************************************)
\* the path of a returned result is held, unless its file (or the file that
\* overwrote its item) has been popped by close_open_files
C3_Held ==
    \A c \in Callers :
        (Returned(c, "dask.compute") /\ ret[c].tag = "return") =>
            \A k \in 1..Len(ret[c].tuple) :
                LET h == ret[c].tuple[k].file IN
                \/ DictHas(OPEN_FILES, files[h].path)
                \/ files[h].reg = "popped"
                \/ /\ files[h].reg = "dropped"
                   /\ \E h2 \in Handles : files[h2].path = files[h].path /\ files[h2].reg = "popped"

C3_Keeps ==
    \A p \in Paths :
        (DictHas(OPEN_FILES, p) /\ ~DictHas(OPEN_FILES', p)) =>
            \E c \in Callers : pc[c] = "close_pop" /\ pc'[c] = "close_close"

C3_CloseEmpties ==
    \A c \in Callers :
        (call[c] = "close_open_files" /\ pc[c] = "close_test" /\ pc'[c] = "idle") =>
            OPEN_FILES' = <<>>

C3_DirectEvaluationKeepsFiles == []C3_Held /\ [][C3_Keeps /\ C3_CloseEmpties]_vars

\* a second direct evaluation has read through the file that an earlier one left
\* in _OPEN_FILES_
C3_Witness ==
    \E c \in Callers :
        /\ Returned(c, "dask.compute") /\ ret[c].tag = "return"
        /\ \E k \in 1..Len(ret[c].tuple) :
              /\ files[ret[c].tuple[k].file].by = None
              /\ files[ret[c].tuple[k].file].reg = "held"
              /\ InRegistry(ret[c].tuple[k].file)

(***************************************************************************)
(* C4: from_h5dataset given both shape and dtype returns the lazy array    *)
(* whether or not the file exists; the delayed read of an array whose file *)
(* is absent when the read checks for it fails with FileNotFoundError, and *)
(* the evaluation raises the exception of a failed read.                   *)
(***************************************************************************)
C4_Built ==
    (made.name = "from_h5dataset" /\ HasBoth(made.kwargs)) =>
        /\ made.ret.tag = "return"
        /\ made.ret.array =
              <<LazyArray(made.file_path, made.path, made.field_name, made.kwargs)>>

C4_AbsentFails ==
    \A c \in Callers, i \in 1..MaxBatch :
        (/\ Evaluating(c) /\ i \in Tasks(c)
         /\ task[c][i].pc = "exists"
         /\ ~exists[task[c][i].arr.file_path]
         /\ Len(task'[c]) >= i
         /\ task'[c][i] # task[c][i])
            => task'[c][i].pc = "failed" /\ task'[c][i].exc = FileNotFoundError

C4_Raises ==
    \A c \in Callers :
        (Evaluating(c) /\ pc'[c] # "engine" /\ AnyFailed(c)) =>
            /\ ret'[c].tag = "raise"
            /\ \E i \in Tasks(c) : task[c][i].pc = "failed" /\ ret'[c].exc = task[c][i].exc

C4_DeferredExistenceCheck == []C4_Built /\ [][C4_AbsentFails /\ C4_Raises]_vars

\* compute of an array built with shape and dtype for a file that is absent
\* has raised FileNotFoundError
C4_Witness ==
    \E c \in Callers :
        /\ Returned(c, "compute") /\ ret[c] = Raise(FileNotFoundError)
        /\ \E a \in held : a.shape = GivenKwargs.shape /\ ~exists[a.file_path]
        /\ Cardinality(held) = 1

(***************************************************************************)
(* C5: from_h5dataset without both shape and dtype raises                  *)
(* FileNotFoundError when the file does not exist and NotDatasetError      *)
(* whenever the file exists and the dataset path does not lead to a        *)
(* dataset.                                                                *)
(***************************************************************************)
C5_ResolverErrors ==
    (made.name = "from_h5dataset" /\ ~HasBoth(made.kwargs)) =>
        /\ ~made.existed => made.ret = Raise(FileNotFoundError)
        /\ (made.existed /\ Node(made.path).kind # "Dataset")
              => made.ret = Raise(NotDatasetError)

(***************************************************************************)
(* C6: from_h5group raises FileNotFoundError when the file does not exist  *)
(* and NotGroupError whenever the file exists and the group path does not  *)
(* lead to a group; when it raises it returns no dict.                     *)
(***************************************************************************)
C6_GroupErrors ==
    made.name = "from_h5group" =>
        /\ ~made.existed => made.ret = Raise(FileNotFoundError)
        /\ (made.existed /\ Node(made.path).kind # "Group") => made.ret = Raise(NotGroupError)
        /\ made.ret.tag = "raise" => made.ret.dict = <<>>

(***************************************************************************)
(* C7: every lazy array that from_h5group returns for a field of a         *)
(* structured dataset carries the name of that field in its delayed read.  *)
(***************************************************************************)
C7_FieldCarried ==
    (made.name = "from_h5group" /\ made.ret.tag = "return") =>
        \A i \in 1..Len(made.ret.dict) :
            LET item == made.ret.dict[i] IN
            Node(item.value.dataset_path).dtype.names # <<>>
                => item.value.field_name = item.key

(***************************************************************************)
(* C8: the keys of the dict that from_h5group returns are the names of the *)
(* plain datasets of the group together with the field names of its        *)
(* structured datasets; groups in the group and the names of structured    *)
(* datasets are no keys.                                                   *)
(***************************************************************************)
ChildDatasets(g) ==
    {n \in SeqSet(Node(g).children) : Node(Append(g, n)).kind = "Dataset"}

ExpectedKeys(g) ==
    {n \in ChildDatasets(g) : Node(Append(g, n)).dtype.names = <<>>}
    \cup UNION {SeqSet(Node(Append(g, n)).dtype.names) : n \in ChildDatasets(g)}

C8_GroupKeys ==
    (made.name = "from_h5group" /\ made.ret.tag = "return") =>
        DictKeys(made.ret.dict) = ExpectedKeys(made.path)

\* the dict of a group with a nested group, a plain and a structured dataset
C8_Witness ==
    /\ made.name = "from_h5group" /\ made.ret.tag = "return"
    /\ made.path = <<"g">>
    /\ DictKeys(made.ret.dict) = {"p", "re", "im"}

(***************************************************************************)
(* C9: close_open_files closes every file it takes out of _OPEN_FILES_ and *)
(* leaves _OPEN_FILES_ empty when it ends; when it finds _OPEN_FILES_      *)
(* empty it returns without changing or closing anything.                  *)
(***************************************************************************)
C9_PoppedClosed ==
    \A h \in Handles : files[h].reg = "popped" => ~files[h].open \/ BeingClosed(h)

C9_LeavesEmpty ==
    \A c \in Callers :
        (pc[c] \in {"close_test", "close_pop"} /\ pc'[c] = "idle") => OPEN_FILES' = <<>>

C9_Idempotent ==
    \A c \in Callers :
        (pc[c] = "close_test" /\ OPEN_FILES = <<>> /\ pc'[c] # pc[c]) =>
            /\ pc'[c] = "idle" /\ ret'[c].tag = "return"
            /\ OPEN_FILES' = <<>> /\ files' = files

C9_CloseAll == []C9_PoppedClosed /\ [][C9_LeavesEmpty /\ C9_Idempotent]_vars

\* close_open_files has returned after closing the files of two paths
C9_Witness ==
    \E c \in Callers :
        /\ Returned(c, "close_open_files") /\ ret[c].tag = "return"
        /\ OPEN_FILES = <<>>
        /\ Cardinality({h \in Handles : files[h].reg = "popped" /\ ~files[h].open}) >= 2

(***************************************************************************)
(* C10: while no close_open_files runs, the part of _get_dataset that gets *)
(* the file opens it only when _OPEN_FILES_ holds none for the path, the   *)
(* store then grows _OPEN_FILES_ by one item, and it fails only with       *)
(* FileNotFoundError, for a path without a file, leaving _OPEN_FILES_ as   *)
(* it was.                                                                 *)
(***************************************************************************)
NoCloser == \A c \in Callers : pc[c] \notin {"close_test", "close_pop", "close_close"}

C10_AcquireStep ==
    \A c \in Callers, i \in 1..MaxBatch :
        (/\ NoCloser
         /\ Evaluating(c) /\ i \in Tasks(c)
         /\ Len(task'[c]) >= i
         /\ task'[c][i] # task[c][i])
            => LET t == task[c][i] IN
               /\ t.pc = "open" => ~DictHas(OPEN_FILES, t.arr.file_path)
               /\ t.pc = "store" => Len(OPEN_FILES') = Len(OPEN_FILES) + 1
               /\ (t.pc \in {"exists", "in", "open", "store", "get"}
                   /\ task'[c][i].pc = "failed")
                     => /\ task'[c][i].exc = FileNotFoundError
                        /\ ~exists[t.arr.file_path]
                        /\ OPEN_FILES' = OPEN_FILES

C10_Acquire == [][C10_AcquireStep]_vars

(***************************************************************************)
(* C11: a constructor call, from_h5dataset with or without shape and       *)
(* dtype and from_h5group, returning or raising, leaves _OPEN_FILES_ and   *)
(* the files opened by the delayed reads as they are, and every file it    *)
(* opened for itself is closed when the call is over.                      *)
(***************************************************************************)
C11_ScopesClosed == made.scope.closed = made.scope.opened

C11_RegistryKept ==
    (made' # made /\ made'.name # None) => (OPEN_FILES' = OPEN_FILES /\ files' = files)

C11_ConstructionLeavesRegistry == []C11_ScopesClosed /\ [][C11_RegistryKept]_vars

\* a constructor has raised after it opened a file for itself, while
\* _OPEN_FILES_ holds an open file
C11_Witness ==
    /\ made.name \in {"from_h5dataset", "from_h5group"}
    /\ made.ret.tag = "raise"
    /\ made.scope.opened = 1
    /\ OPEN_FILES # <<>>
    /\ \A h \in DictValues(OPEN_FILES) : files[h].open

(***************************************************************************)
(* C12: when from_h5dataset is given only one of shape and dtype, the lazy *)
(* array it returns carries the value the caller gave; only the missing    *)
(* one is taken from the file.                                             *)
(***************************************************************************)
C12_GivenKept ==
    (/\ made.name = "from_h5dataset"
     /\ made.ret.tag = "return"
     /\ ~HasBoth(made.kwargs)) =>
        LET arr == made.ret.array[1]
            \* what the file holds: the call returned, so the file was there
            info == get_ds_info([p \in Paths |-> TRUE], made.file_path, made.path,
                                made.field_name)
        IN /\ arr.shape = IF made.kwargs.hasShape THEN made.kwargs.shape ELSE info.shape
           /\ arr.dtype = IF made.kwargs.hasDType THEN made.kwargs.dtype ELSE info.dtype

(***************************************************************************)
(* C13: compute indexes exactly those results of the engine that are       *)
(* FieldsWrapper views: a view is read into a plain array, any other       *)
(* result is passed on as it is; and every value compute returns is a      *)
(* plain array that reads through no file.                                 *)
(***************************************************************************)
C13_StepOnViewsOnly ==
    \A c \in Callers :
        (pc[c] = "index" /\ Len(results'[c].out) = Len(results[c].out) + 1) =>
            LET x == Head(results[c].raw)
                y == results'[c].out[Len(results'[c].out)]
            IN y = IF x.kind = "FieldsWrapper" THEN Read(x) ELSE x

C13_PlainResults ==
    \A c \in Callers :
        (Returned(c, "compute") /\ ret[c].tag = "return") =>
            \A k \in 1..Len(ret[c].tuple) :
                ret[c].tuple[k].kind = "ndarray" /\ ret[c].tuple[k].file = 0

C13_MaterializeViews == []C13_PlainResults /\ [][C13_StepOnViewsOnly]_vars

(***************************************************************************)
(* C14: within one compute call, close_open_files runs only after every    *)
(* delayed read of the call has finished and every result has been         *)
(* indexed: when the call closes a file, none of its reads is pending and  *)
(* none of its results is still to be read through a file.                 *)
(***************************************************************************)
Closes(h) == h \in Handles /\ files[h].open /\ ~files'[h].open

C14_ClosingLast ==
    \A c \in Callers :
        (call[c] = "compute" /\ pc[c] # "idle" /\ \E h \in Handles : Closes(h)) =>
            /\ pc[c] = "close_close"
            /\ task[c] = <<>>
            /\ results[c].raw = <<>>

C14_InClose ==
    \A c \in Callers :
        (call[c] = "compute" /\ pc[c] \in {"close_test", "close_pop", "close_close"}) =>
            task[c] = <<>> /\ results[c].raw = <<>>

C14_CloseAfterReads == []C14_InClose /\ [][C14_ClosingLast]_vars

\* compute is closing a file that its own evaluation opened, after it has
\* indexed the two results of its batch
C14_Witness ==
    \E c \in Callers :
        /\ call[c] = "compute" /\ pc[c] = "close_close"
        /\ Len(results[c].out) = 2
        /\ files[results[c].file].by = c
        /\ files[results[c].file].open

(***************************************************************************)
(* C15: when two compute calls run at the same time, the close_open_files  *)
(* of one never closes a file that a delayed read of the other, still      *)
(* running, has got from _OPEN_FILES_ and has not finished reading         *)
(* through: neither a file a task is about to read from, nor the file of a *)
(* result that compute has not indexed yet.                                *)
(***************************************************************************)
\* the files that the running call of thread d still reads through
InUse(d) ==
    {task[d][i].file : i \in {j \in Tasks(d) : task[d][j].pc = "read"}}
        \cup {results[d].raw[k].file : k \in 1..Len(results[d].raw)}

C15_NoCloseUnderReader ==
    \A c \in Callers : \A d \in Callers \ {c} :
        (/\ call[c] = "compute" /\ pc[c] = "close_close"
         /\ call[d] = "compute" /\ pc[d] \in {"engine", "index"}
         /\ Closes(results[c].file))
            => results[c].file \notin InUse(d)

C15_ConcurrentCalls == [][C15_NoCloseUnderReader]_vars

(***************************************************************************)
(* C16: no open file is ever lost.  Every file that _get_dataset has       *)
(* opened and that is not closed is in _OPEN_FILES_ (or is the file a read *)
(* has just opened and stores next, or the file close_open_files has just  *)
(* popped and closes next); so when close_open_files has returned and no   *)
(* read and no close is under way, no such file is open.                   *)
(***************************************************************************)
BeingStored(h) ==
    \E c \in Callers : \E i \in Tasks(c) : task[c][i].pc = "store" /\ task[c][i].file = h

C16_Quiet ==
    /\ \A c \in Callers : pc[c] = "idle"
    /\ \E c \in Callers :
          /\ call[c] \in {"compute", "close_open_files"}
          /\ ret[c].tag = "return"
    /\ OPEN_FILES = <<>>

C16_NoHandleLost ==
    /\ \A h \in Handles :
          files[h].open => (InRegistry(h) \/ BeingStored(h) \/ BeingClosed(h))
    /\ C16_Quiet => \A h \in Handles : ~files[h].open

(***************************************************************************)
(* C17: _OPEN_FILES_ never holds a closed file, not even between the steps *)
(* of close_open_files, which takes an item out of the dict before it      *)
(* closes the file; so the file a delayed read gets from _OPEN_FILES_ is   *)
(* open when the read gets it, and a read that runs after a                *)
(* close_open_files has emptied the dict opens a new file.                 *)
(***************************************************************************)
C17_RegistryOpen == \A h \in DictValues(OPEN_FILES) : files[h].open

C17_GetsOpenFile ==
    \A c \in Callers : \A i \in Tasks(c) :
        (/\ task[c][i].pc = "get"
         /\ Len(task'[c]) >= i
         /\ task'[c][i].pc = "read")
            => /\ files[task'[c][i].file].open
               /\ files[task'[c][i].file].reg = "held"

C17_NoStaleHandle == []C17_RegistryOpen /\ [][C17_GetsOpenFile]_vars

\* a read has got a new open file for a path whose earlier file
\* close_open_files has popped and closed
C17_Witness ==
    \E c \in Callers : \E i \in Tasks(c) :
        /\ task[c][i].pc = "read"
        /\ files[task[c][i].file].open
        /\ InRegistry(task[c][i].file)
        /\ \E h \in Handles :
              /\ h < task[c][i].file
              /\ files[h].path = files[task[c][i].file].path
              /\ files[h].reg = "popped"
              /\ ~files[h].open

====
